---- MODULE Spec2Model ----
(***************************************************************************)
(* FoodFinder: the vector index (FAISSIndex), the multimodal retriever,    *)
(* the tools and the agent's reasoning/acting loop, as state machines.     *)
(*                                                                         *)
(* An embedding vector is modelled by its width and by the position pt of  *)
(* the vector on one axis (all other coordinates 0), so that the squared   *)
(* Euclidean distance of two vectors of one width is (pt1 - pt2)^2.        *)
(* Every index of the repository is built with index_type "Flat"           *)
(* (faiss.IndexFlatL2: exhaustive search, squared L2 distance).            *)
(***************************************************************************)
EXTENDS Integers, Sequences, FiniteSets, TLC

\* Bounds of the model.
MaxEntries == 2
MaxPt == 1
MaxCalls == 2
MaxMessages == 8

\* Dimensions of the two indices of the retriever.
TextDim == 768
ImageDim == 512

Points == 0..MaxPt
Ks == 1..(MaxEntries + 1)
Widths == {TextDim, ImageDim}

TextIndexPath == "text_index.faiss"
TextMetadataPath == "text_metadata.pkl"
ImageIndexPath == "image_index.faiss"
ImageMetadataPath == "image_metadata.pkl"
IndexPaths == {TextIndexPath, ImageIndexPath}
MetadataPaths == {TextMetadataPath, ImageMetadataPath}

VARIABLES
    index,      \* the FAISSIndex objects: text_index and image_index of the retriever
    files,      \* the persisted artifacts, by path
    toolLoaded, \* _indices_loaded of the text and of the image search tool
    loadedOk,   \* history: load_indices() has returned normally on the retriever
                \* (.retriever); the load of the text / image index has (.text, .image)
    last,       \* the last call: its arguments and its outcome
    messages,   \* the Conversation State of the session: state["messages"]
    node,       \* where the session is: "idle" before run(), "agent" and "model"
                \* (Reasoning: before and during the model call), "tools"
                \* (Acting), "end" (Done), "returned" (run() has returned),
                \* "failed" (run() has raised)
    sent,       \* the message list handed to the model by the last _call_model
    acting,     \* the Acting step: the tool calls, their outputs, the order in
                \* which they completed
    steps,      \* history: the Reasoning and Acting steps of the session so far
    result      \* what run() returned

agentVars == <<messages, node, sent, acting, steps, result>>

vars == <<index, files, toolLoaded, loadedOk, last, messages, node, sent, acting,
          steps, result>>

----------------------------------------------------------------------------
(* Sequences *)

SeqsUpTo(S, n) == UNION {[1..m -> S] : m \in 0..n}

----------------------------------------------------------------------------
(* FAISSIndex *)

\* self.index = None
NoIndex == [created |-> FALSE, d |-> 0, vecs |-> <<>>]

\* FAISSIndex.__init__
NewFAISSIndex(dimension) ==
    [dimension |-> dimension, index |-> NoIndex, metadata |-> <<>>]

\* create_index, index_type "Flat": an empty faiss.IndexFlatL2(dimension)
CreateIndex(obj) ==
    [obj EXCEPT !.index = [created |-> TRUE, d |-> obj.dimension, vecs |-> <<>>]]

\* self.index.ntotal
Ntotal(obj) == Len(obj.index.vecs)

\* A metadata record as the build scripts make it: the entry's identity.
Record(i) == [id |-> i]

\* The embeddings array handed to add: its rank, its width (shape[1]) and its
\* rows (len(embeddings) = Len(rows)).  An array of another rank than 2, or of
\* another width than dim, is rejected before its content is read: there is
\* one of each length.
Batches(dim) ==
    [ndim : {2}, width : {dim}, rows : SeqsUpTo(Points, MaxEntries)]
    \cup [ndim : {2}, width : Widths \ {dim}, rows : SeqsUpTo({0}, MaxEntries)]
    \cup [ndim : {1, 3}, width : {dim}, rows : SeqsUpTo({0}, MaxEntries)]

\* A validation that forgets to compare the two counts.
AddStatusNoCount(obj, batch, metadata) ==
    IF batch.ndim # 2 THEN "ValueError"
    ELSE IF batch.width # obj.dimension THEN "ValueError"
    ELSE "ok"

\* The validation of add (rank, width, count), in the order of the code.
AddStatus(obj, batch, metadata) ==
    IF batch.ndim # 2 THEN "ValueError"
    ELSE IF batch.width # obj.dimension THEN "ValueError"
    ELSE IF Len(batch.rows) # Len(metadata) THEN "ValueError"
    ELSE "ok"

\* An add that puts the new entries before the stored ones.
AddResultPrepends(obj, batch, metadata) ==
    LET o1 == IF obj.index.created THEN obj ELSE CreateIndex(obj)
        st == AddStatus(o1, batch, metadata)
    IN  IF st # "ok" THEN [status |-> st, obj |-> o1]
        ELSE IF batch.width # o1.index.d
             THEN [status |-> "AssertionError", obj |-> o1]
        ELSE [status |-> "ok",
              obj |-> [o1 EXCEPT !.index.vecs = batch.rows \o @,
                                 !.metadata = metadata \o @]]

\* add(embeddings, metadata): the object after the call.  The index is created
\* before the validation; faiss's own add rejects rows whose width is not the
\* width of the stored index.
AddResult(obj, batch, metadata) ==
    LET o1 == IF obj.index.created THEN obj ELSE CreateIndex(obj)
        st == AddStatus(o1, batch, metadata)
    IN  IF st # "ok" THEN [status |-> st, obj |-> o1]
        ELSE IF batch.width # o1.index.d
             THEN [status |-> "AssertionError", obj |-> o1]
        ELSE [status |-> "ok",
              obj |-> [o1 EXCEPT !.index.vecs = @ \o batch.rows,
                                 !.metadata = @ \o metadata]]


\* Squared Euclidean distance of two vectors of one width (IndexFlatL2), in
\* units of 1 / Resolution: the points stand for vectors 2^-13 apart in two
\* coordinates (embeddings of near-duplicate entries).
Dist(p, q) == (p - q) * (p - q)

\* The distance faiss reports in a result slot it could not fill (the largest
\* float32): larger than every distance between two stored points.
FltMax == MaxPt * MaxPt + 1

\* Position (1-based) of the stored vector that is r-th nearest to the point q:
\* ascending distance, equal distances in insertion order.
Before(vecs, q, i, j) ==
    \/ Dist(vecs[i], q) < Dist(vecs[j], q)
    \/ Dist(vecs[i], q) = Dist(vecs[j], q) /\ i < j

NthNearest(vecs, q, r) ==
    CHOOSE j \in 1..Len(vecs) :
        Cardinality({i \in 1..Len(vecs) : Before(vecs, q, i, j)}) = r - 1

\* Labels that count positions from 1 where the metadata list counts from 0.
FaissLabelsOneBased(vecs, q, k) ==
    [r \in 1..k |-> IF r <= Len(vecs) THEN NthNearest(vecs, q, r) ELSE -1]

\* self.index.search(query, k): k labels (0-based positions, -1 in a slot that
\* could not be filled) and k distances.
FaissLabels(vecs, q, k) ==
    [r \in 1..k |-> IF r <= Len(vecs) THEN NthNearest(vecs, q, r) - 1 ELSE -1]

FaissDistances(vecs, q, k) ==
    [r \in 1..k |-> IF r <= Len(vecs)
                    THEN Dist(vecs[NthNearest(vecs, q, r)], q)
                    ELSE FltMax]

\* The labels the comprehension of search keeps: idx < len(self.metadata).
KeptLabel(idx, n) == idx < n

KeptLabels(labels, n) == SelectSeq(labels, LAMBDA idx : KeptLabel(idx, n))

\* self.metadata[idx] as Python indexes a list of n elements: the 1-based
\* position read, 0 when the read raises IndexError.
PyPosition(idx, n) ==
    IF idx >= 0 /\ idx < n THEN idx + 1
    ELSE IF idx < 0 /\ n + idx >= 0 THEN n + idx + 1
    ELSE 0

\* A search that takes an index that was never created for an empty one.
SearchResultNoneIsEmpty(obj, query, k) ==
    IF ~obj.index.created
    THEN [status |-> "ok", distances |-> <<>>, hits |-> <<>>]
    ELSE IF query.width # obj.index.d
    THEN [status |-> "AssertionError", distances |-> <<>>, hits |-> <<>>]
    ELSE
    LET n == Len(obj.metadata)
        kept == KeptLabels(FaissLabels(obj.index.vecs, query.pt, k), n)
        hits == [i \in 1..Len(kept) |-> PyPosition(kept[i], n)]
    IN  IF \E i \in 1..Len(hits) : hits[i] = 0
        THEN [status |-> "IndexError", distances |-> <<>>, hits |-> <<>>]
        ELSE [status |-> "ok",
              distances |-> FaissDistances(obj.index.vecs, query.pt, k),
              hits |-> hits]

\* search(query_embedding, k): the status, the k distances and the positions in
\* self.metadata of the records returned (the records themselves, not copies).
SearchResult(obj, query, k) ==
    IF ~obj.index.created
    THEN [status |-> "AttributeError", distances |-> <<>>, hits |-> <<>>]
    ELSE IF query.width # obj.index.d
    THEN [status |-> "AssertionError", distances |-> <<>>, hits |-> <<>>]
    ELSE
    LET n == Len(obj.metadata)
        kept == KeptLabels(FaissLabels(obj.index.vecs, query.pt, k), n)
        hits == [i \in 1..Len(kept) |-> PyPosition(kept[i], n)]
    IN  IF \E i \in 1..Len(hits) : hits[i] = 0
        THEN [status |-> "IndexError", distances |-> <<>>, hits |-> <<>>]
        ELSE [status |-> "ok",
              distances |-> FaissDistances(obj.index.vecs, query.pt, k),
              hits |-> hits]

\* The records a successful search returns.
Records(obj, hits) == [i \in 1..Len(hits) |-> obj.metadata[hits[i]]]

\* The query vectors: every point at the width dim, one vector of another width.
Queries(dim) ==
    [width : {dim}, pt : Points] \cup [width : Widths \ {dim}, pt : {0}]

----------------------------------------------------------------------------
(* Persisted artifacts *)

NoIndexFile == [exists |-> FALSE, d |-> 0, vecs |-> <<>>]
NoMetadataFile == [exists |-> FALSE, records |-> <<>>]

\* faiss.write_index(self.index, index_path)
IndexFile(obj) == [exists |-> TRUE, d |-> obj.index.d, vecs |-> obj.index.vecs]

\* pickle.dump(self.metadata, f)
MetadataFile(records) == [exists |-> TRUE, records |-> records]

\* save(index_path, metadata_path): the vector store is written first, then the
\* metadata list.  write_index rejects self.index = None; metaWritten is FALSE
\* when the second write fails (open raises) after the first has been done.
SaveResult(obj, fs, pa, pb, metaWritten) ==
    IF ~obj.index.created THEN [status |-> "TypeError", files |-> fs]
    ELSE LET fs1 == [fs EXCEPT ![pa] = IndexFile(obj)]
         IN  IF ~metaWritten THEN [status |-> "OSError", files |-> fs1]
             ELSE [status |-> "ok",
                   files |-> [fs1 EXCEPT ![pb] = MetadataFile(obj.metadata)]]

\* A load that restores the vector store and keeps the metadata list it had.
LoadResultKeepsMetadata(obj, fs, pa, pb) ==
    IF ~fs[pa].exists \/ ~fs[pb].exists
    THEN [status |-> "NotFoundError", obj |-> obj]
    ELSE [status |-> "ok",
          obj |-> [obj EXCEPT !.index = [created |-> TRUE, d |-> fs[pa].d,
                                        vecs |-> fs[pa].vecs]]]

\* A load that takes an absent metadata list for an empty one.
LoadResultEmptyMetadata(obj, fs, pa, pb) ==
    IF ~fs[pa].exists THEN [status |-> "NotFoundError", obj |-> obj]
    ELSE [status |-> "ok",
          obj |-> [obj EXCEPT !.index = [created |-> TRUE, d |-> fs[pa].d,
                                        vecs |-> fs[pa].vecs],
                              !.metadata = fs[pb].records]]

\* load(index_path, metadata_path): read_index raises when the vector store is
\* absent, open raises when the metadata list is absent (both: the spec's
\* NotFoundError); self.index is assigned before the metadata list is opened.
LoadResult(obj, fs, pa, pb) ==
    IF ~fs[pa].exists THEN [status |-> "NotFoundError", obj |-> obj]
    ELSE LET o1 == [obj EXCEPT !.index = [created |-> TRUE, d |-> fs[pa].d,
                                         vecs |-> fs[pa].vecs]]
         IN  IF ~fs[pb].exists THEN [status |-> "NotFoundError", obj |-> o1]
             ELSE [status |-> "ok",
                   obj |-> [o1 EXCEPT !.metadata = fs[pb].records]]

----------------------------------------------------------------------------
(* State *)

Objects == {"text_index", "image_index"}

\* MultimodalRetriever.__init__ : FAISSIndex(dimension=768), FAISSIndex(dimension=512)
DimensionOf(x) == IF x = "text_index" THEN TextDim ELSE ImageDim

Init ==
    /\ index = [x \in Objects |-> NewFAISSIndex(DimensionOf(x))]
    /\ files = [p \in IndexPaths \cup MetadataPaths |->
                   IF p \in IndexPaths THEN NoIndexFile ELSE NoMetadataFile]
    /\ toolLoaded = [t \in {"text", "image"} |-> FALSE]
    /\ loadedOk = [retriever |-> FALSE, text |-> FALSE, image |-> FALSE]
    /\ last = [op |-> "init", status |-> "ok"]
    /\ messages = <<>>
    /\ node = "idle"
    /\ sent = <<>>
    /\ acting = [calls |-> <<>>, out |-> <<>>, alone |-> <<>>, order |-> <<>>]
    /\ steps = [reasoning |-> 0, acting |-> 0]
    /\ result = [returned |-> FALSE, raised |-> FALSE, answer |-> <<>>]

----------------------------------------------------------------------------
(* The operations of one FAISSIndex object *)

\* The metadata list handed to add: m records, numbered after those stored.
NewRecords(obj, m) == [j \in 1..m |-> Record(Len(obj.metadata) + j)]

Add(x, batch, m) ==
    /\ Ntotal(index[x]) + Len(batch.rows) <= MaxEntries
    /\ Len(index[x].metadata) + m <= MaxEntries
    /\ \E metadata \in {NewRecords(index[x], m)} :
       \E r \in {AddResult(index[x], batch, metadata)} :
        /\ index' = [index EXCEPT ![x] = r.obj]
        /\ last' = [op |-> "add", obj |-> x, status |-> r.status,
                    batch |-> batch, metadata |-> metadata]
        /\ UNCHANGED <<files, toolLoaded, loadedOk>>
        /\ UNCHANGED agentVars

Search(x, query, k) ==
    \E r \in {SearchResult(index[x], query, k)} :
        /\ last' = [op |-> "search", obj |-> x, status |-> r.status,
                    query |-> query, k |-> k, distances |-> r.distances,
                    results |-> Records(index[x], r.hits)]
        /\ UNCHANGED <<index, files, toolLoaded, loadedOk>>
        /\ UNCHANGED agentVars

Save(x, pa, pb, metaWritten) ==
    \E r \in {SaveResult(index[x], files, pa, pb, metaWritten)} :
        /\ files' = r.files
        /\ last' = [op |-> "save", obj |-> x, status |-> r.status,
                    pa |-> pa, pb |-> pb]
        /\ UNCHANGED <<index, toolLoaded, loadedOk>>
        /\ UNCHANGED agentVars

Load(x, pa, pb) ==
    \E r \in {LoadResult(index[x], files, pa, pb)} :
        /\ index' = [index EXCEPT ![x] = r.obj]
        /\ last' = [op |-> "load", obj |-> x, status |-> r.status,
                    pa |-> pa, pb |-> pb]
        /\ UNCHANGED <<files, toolLoaded, loadedOk>>
        /\ UNCHANGED agentVars

\* One FAISSIndex object and its pair of artifacts.
NextIndex ==
    \/ \E batch \in Batches(TextDim), m \in 0..MaxEntries :
           Add("text_index", batch, m)
    \/ \E query \in Queries(TextDim), k \in Ks : Search("text_index", query, k)
    \/ \E w \in BOOLEAN : Save("text_index", TextIndexPath, TextMetadataPath, w)
    \/ Load("text_index", TextIndexPath, TextMetadataPath)

SpecIndex == Init /\ [][NextIndex]_vars

----------------------------------------------------------------------------
(* The build script (scripts/build_indices.py) *)

\* build_text_index: a fresh FAISSIndex(768), one add of the embeddings of all
\* restaurants with one record each, one save.  The encoder returns a rank-1
\* empty array for an empty list of texts.
BuildTextResult(fs, rows, metaWritten) ==
    LET batch == [ndim |-> IF Len(rows) = 0 THEN 1 ELSE 2,
                  width |-> TextDim, rows |-> rows]
        fresh == NewFAISSIndex(TextDim)
        a == AddResult(fresh, batch, NewRecords(fresh, Len(rows)))
    IN  IF a.status # "ok" THEN [status |-> a.status, files |-> fs]
        ELSE SaveResult(a.obj, fs, TextIndexPath, TextMetadataPath, metaWritten)

\* build_image_index: a fresh FAISSIndex(512), one add of the embeddings of the
\* photos that could be embedded (possibly none: an array of shape (0, 512))
\* with the records of those photos, one save.
BuildImageResult(fs, rows, metaWritten) ==
    LET batch == [ndim |-> 2, width |-> ImageDim, rows |-> rows]
        fresh == NewFAISSIndex(ImageDim)
        a == AddResult(fresh, batch, NewRecords(fresh, Len(rows)))
    IN  IF a.status # "ok" THEN [status |-> a.status, files |-> fs]
        ELSE SaveResult(a.obj, fs, ImageIndexPath, ImageMetadataPath, metaWritten)

\* main without --force: an index is built only while its artifact is absent.
BuildTextIndex(rows, metaWritten) ==
    /\ ~files[TextIndexPath].exists
    /\ \E r \in {BuildTextResult(files, rows, metaWritten)} :
        /\ files' = r.files
        /\ last' = [op |-> "build_text", status |-> r.status]
        /\ UNCHANGED <<index, toolLoaded, loadedOk>>
        /\ UNCHANGED agentVars

BuildImageIndex(rows, metaWritten) ==
    /\ ~files[ImageIndexPath].exists
    /\ \E r \in {BuildImageResult(files, rows, metaWritten)} :
        /\ files' = r.files
        /\ last' = [op |-> "build_image", status |-> r.status]
        /\ UNCHANGED <<index, toolLoaded, loadedOk>>
        /\ UNCHANGED agentVars

----------------------------------------------------------------------------
(* MultimodalRetriever *)

\* A load_indices for which the image index is required as the text index is.
LoadIndicesImageRequired(idx, fs) ==
    IF ~fs[TextIndexPath].exists \/ ~fs[ImageIndexPath].exists
    THEN [status |-> "NotFoundError", index |-> idx,
          text |-> FALSE, image |-> FALSE]
    ELSE LET t == LoadResult(idx["text_index"], fs, TextIndexPath, TextMetadataPath)
             i == LoadResult(idx["image_index"], fs, ImageIndexPath,
                             ImageMetadataPath)
         IN  [status |-> IF t.status # "ok" THEN t.status ELSE i.status,
              index |-> [idx EXCEPT !["text_index"] = t.obj,
                                    !["image_index"] = i.obj],
              text |-> t.status = "ok",
              image |-> t.status = "ok" /\ i.status = "ok"]

\* load_indices: the text index is required and checked first; the image index
\* is loaded only when its vector store artifact exists.  idx is the pair of
\* FAISSIndex objects of the retriever.
LoadIndicesResult(idx, fs) ==
    IF ~fs[TextIndexPath].exists
    THEN [status |-> "NotFoundError", index |-> idx,
          text |-> FALSE, image |-> FALSE]
    ELSE LET t == LoadResult(idx["text_index"], fs, TextIndexPath, TextMetadataPath)
             idx1 == [idx EXCEPT !["text_index"] = t.obj]
         IN  IF t.status # "ok"
             THEN [status |-> t.status, index |-> idx1,
                   text |-> FALSE, image |-> FALSE]
             ELSE IF ~fs[ImageIndexPath].exists
             THEN [status |-> "ok", index |-> idx1,
                   text |-> TRUE, image |-> FALSE]
             ELSE LET i == LoadResult(idx["image_index"], fs, ImageIndexPath,
                                      ImageMetadataPath)
                  IN  [status |-> i.status,
                       index |-> [idx1 EXCEPT !["image_index"] = i.obj],
                       text |-> TRUE, image |-> i.status = "ok"]

\* The history after a call of load_indices with result l.
LoadedAfter(h, l) ==
    [retriever |-> h.retriever \/ l.status = "ok",
     text |-> h.text \/ l.text,
     image |-> h.image \/ l.image]

\* The distances of faiss are numpy float32 scalars, and so are 1 + distance
\* and the quotient: numbers of Mantissa significant bits.
Mantissa == 24

\* The number 1 in the unit of the distances (2^25 units).
Resolution == 33554432

\* The sum 1 + FltMax, which float32 rounds to FltMax: above every other sum.
Largest == 2147483647

RECURSIVE BitLength(_)
BitLength(n) == IF n = 0 THEN 0 ELSE 1 + BitLength(n \div 2)

RECURSIVE Pow2(_)
Pow2(e) == IF e = 0 THEN 1 ELSE 2 * Pow2(e - 1)

\* The float32 nearest to the number of n units: n keeps its Mantissa leading
\* bits, the rest is rounded to nearest, ties to even.
Float32(n) ==
    LET shift == BitLength(n) - Mantissa
    IN  IF shift <= 0 THEN n
        ELSE LET q == Pow2(shift)
                 r == n % q
                 lo == n - r
             IN  IF 2 * r < q THEN lo
                 ELSE IF 2 * r > q THEN lo + q
                 ELSE IF (lo \div q) % 2 = 0 THEN lo ELSE lo + q

\* float(1 / (1 + distances[i])) as the fraction <<numerator, denominator>>,
\* both in units: the sum is rounded to float32; the quotient of 1 by the
\* rounded sum is kept as the fraction.
Similarity(d) ==
    <<Resolution, IF d = FltMax THEN Largest ELSE Float32(Resolution + d)>>

\* result['distance'] = ...; result['similarity'] = ... on one record
Scored(r, d) == [id |-> r.id, distance |-> d, similarity |-> Similarity(d)]

\* The metadata list after the loop of search_image: the i-th returned record
\* (the record stored at hits[i]) is given the i-th distance, in order, so the
\* last write to a record is the one that stays.
ScoredMetadata(metadata, hits, distances) ==
    [p \in 1..Len(metadata) |->
        LET is == {i \in 1..Len(hits) : hits[i] = p /\ i <= Len(distances)}
        IN  IF is = {} THEN metadata[p]
            ELSE Scored(metadata[p],
                        distances[CHOOSE i \in is : \A j \in is : j <= i])]

\* search_text(query, k): the text embedder never fails on a string.
SearchTextResult(idx, pt, k) ==
    LET r == SearchResult(idx["text_index"], [width |-> TextDim, pt |-> pt], k)
    IN  [status |-> r.status, results |-> Records(idx["text_index"], r.hits),
         index |-> idx]

\* The image handed to search_image: a file the embedder can open, embedded at
\* pt, or one it cannot open.
Images == [readable : {TRUE}, pt : Points] \cup {[readable |-> FALSE, pt |-> 0]}

\* search_image(image_path, k): the image embedder raises when the file cannot
\* be opened as an image.
SearchImageResult(idx, img, k) ==
    IF ~img.readable THEN [status |-> "EmbedError", results |-> <<>>, index |-> idx]
    ELSE
    LET obj == idx["image_index"]
        r == SearchResult(obj, [width |-> ImageDim, pt |-> img.pt], k)
        o1 == [obj EXCEPT !.metadata = ScoredMetadata(@, r.hits, r.distances)]
    IN  [status |-> r.status, results |-> Records(o1, r.hits),
         index |-> [idx EXCEPT !["image_index"] = o1]]

LoadIndices ==
    \E r \in {LoadIndicesResult(index, files)} :
        /\ index' = r.index
        /\ loadedOk' = LoadedAfter(loadedOk, r)
        /\ last' = [op |-> "load_indices", status |-> r.status]
        /\ UNCHANGED <<files, toolLoaded>>
        /\ UNCHANGED agentVars

SearchText(pt, k) ==
    \E r \in {SearchTextResult(index, pt, k)} :
        /\ index' = r.index
        /\ last' = [op |-> "search_text", status |-> r.status, pt |-> pt,
                    k |-> k, results |-> r.results]
        /\ UNCHANGED <<files, toolLoaded, loadedOk>>
        /\ UNCHANGED agentVars

SearchImage(img, k) ==
    \E r \in {SearchImageResult(index, img, k)} :
        /\ index' = r.index
        /\ last' = [op |-> "search_image", status |-> r.status, img |-> img,
                    k |-> k, results |-> r.results]
        /\ UNCHANGED <<files, toolLoaded, loadedOk>>
        /\ UNCHANGED agentVars

----------------------------------------------------------------------------
(* The text and image search tools *)

NoTextMatches == "No restaurants found matching your query."
NoImageMatches == "No similar restaurants found for the provided image."
TextErrorPrefix == "Error retrieving restaurants: "
ImageErrorPrefix == "Error retrieving similar restaurants: "

\* The exceptions the operations of the model raise; all derive from Exception.
Exceptions ==
    {"ValueError", "AssertionError", "AttributeError", "IndexError", "TypeError",
     "OSError", "NotFoundError", "EmbedError"}

\* except Exception as e: whether the handler of _run takes the error
Caught(status) == status \in Exceptions

\* json.dumps(results, indent=2) of a list of records: the opening bracket,
\* one item per record, the closing bracket.
JsonDumps(results) ==
    <<"[">> \o [i \in 1..Len(results) |-> ToString(results[i])] \o <<"]">>

\* A handler that lets the not-found error of load_indices through.
ToolOutputPropagatesNotFound(status, results, none, prefix) ==
    IF status = "NotFoundError" THEN [kind |-> "raised", text |-> <<status>>]
    ELSE IF status # "ok" THEN [kind |-> "error", text |-> <<prefix, status>>]
    ELSE IF Len(results) = 0 THEN [kind |-> "none", text |-> <<none>>]
    ELSE [kind |-> "results", text |-> JsonDumps(results)]

\* A tool that serializes the empty list as it does every other list.
ToolOutputDumpsEmpty(status, results, none, prefix) ==
    IF status # "ok" THEN [kind |-> "error", text |-> <<prefix, status>>]
    ELSE IF Len(results) = 0 THEN [kind |-> "none", text |-> JsonDumps(results)]
    ELSE [kind |-> "results", text |-> JsonDumps(results)]

\* What _run returns, as the text it is made of (kind names the branch taken):
\* the error payload of the except branch (prefix, then str(e) and the
\* traceback), the fixed string, or the serialized records.  An error the
\* handler does not take leaves _run as an exception.
ToolOutput(status, results, none, prefix) ==
    IF status # "ok"
    THEN IF Caught(status) THEN [kind |-> "error", text |-> <<prefix, status>>]
         ELSE [kind |-> "raised", text |-> <<status>>]
    ELSE IF Len(results) = 0 THEN [kind |-> "none", text |-> <<none>>]
    ELSE [kind |-> "results", text |-> JsonDumps(results)]

\* "Load indices once": whether this call of _run calls load_indices
ToolLoads(flag) == ~flag

\* The flag after a call of load_indices that raised and one that returned.
FlagAfterLoad(status) == status = "ok"

\* RAGTextTool._run / RAGImageTool._run up to the search: the load, if any.
\* searched is FALSE when the load raised (the except branch is taken).
ToolLoadStep(idx, fs, flag) ==
    IF ToolLoads(flag)
    THEN LET l == LoadIndicesResult(idx, fs)
         IN  [called |-> TRUE, status |-> l.status, index |-> l.index,
              text |-> l.text, image |-> l.image,
              flag |-> FlagAfterLoad(l.status), searched |-> l.status = "ok"]
    ELSE [called |-> FALSE, status |-> "ok", index |-> idx,
          text |-> FALSE, image |-> FALSE,
          flag |-> flag, searched |-> TRUE]

\* RAGTextTool._run(query, k) on the retriever idx with the artifacts fs and the
\* tool's flag: the load step, the retriever and the flag after the call, and
\* the text returned.
TextToolResult(idx, fs, flag, pt, k) ==
    LET l == ToolLoadStep(idx, fs, flag)
        s == SearchTextResult(l.index, pt, k)
    IN  [load |-> l,
         index |-> IF l.searched THEN s.index ELSE l.index,
         flag |-> l.flag,
         status |-> IF l.searched THEN s.status ELSE l.status,
         results |-> IF l.searched THEN s.results ELSE <<>>,
         out |-> IF l.searched
                 THEN ToolOutput(s.status, s.results, NoTextMatches,
                                 TextErrorPrefix)
                 ELSE ToolOutput(l.status, <<>>, NoTextMatches, TextErrorPrefix)]

\* RAGImageTool._run(image_path, k)
ImageToolResult(idx, fs, flag, img, k) ==
    LET l == ToolLoadStep(idx, fs, flag)
        s == SearchImageResult(l.index, img, k)
    IN  [load |-> l,
         index |-> IF l.searched THEN s.index ELSE l.index,
         flag |-> l.flag,
         status |-> IF l.searched THEN s.status ELSE l.status,
         results |-> IF l.searched THEN s.results ELSE <<>>,
         out |-> IF l.searched
                 THEN ToolOutput(s.status, s.results, NoImageMatches,
                                 ImageErrorPrefix)
                 ELSE ToolOutput(l.status, <<>>, NoImageMatches, ImageErrorPrefix)]

RunTextTool(pt, k) ==
    \E r \in {TextToolResult(index, files, toolLoaded["text"], pt, k)} :
        /\ toolLoaded' = [toolLoaded EXCEPT !["text"] = r.flag]
        /\ loadedOk' = IF r.load.called THEN LoadedAfter(loadedOk, r.load)
                       ELSE loadedOk
        /\ index' = r.index
        /\ last' = [op |-> "text_tool", loadCalled |-> r.load.called,
                    searched |-> r.load.searched, pt |-> pt, k |-> k,
                    status |-> r.status, results |-> r.results, out |-> r.out]
        /\ UNCHANGED files
        /\ UNCHANGED agentVars

RunImageTool(img, k) ==
    \E r \in {ImageToolResult(index, files, toolLoaded["image"], img, k)} :
        /\ toolLoaded' = [toolLoaded EXCEPT !["image"] = r.flag]
        /\ loadedOk' = IF r.load.called THEN LoadedAfter(loadedOk, r.load)
                       ELSE loadedOk
        /\ index' = r.index
        /\ last' = [op |-> "image_tool", loadCalled |-> r.load.called,
                    searched |-> r.load.searched, img |-> img, k |-> k,
                    status |-> r.status, results |-> r.results, out |-> r.out]
        /\ UNCHANGED files
        /\ UNCHANGED agentVars

\* The embeddings of the first n entries of the processed dataset: the
\* embedders are functions of the entry, here the entry's number folded onto
\* the points.  The dataset has MaxEntries restaurants, all in the text index;
\* n of their photos can be embedded.
Corpus(n) == [i \in 1..n |-> (i - 1) % (MaxPt + 1)]

----------------------------------------------------------------------------
(* The image question-answering tool *)

ImageQAErrorPrefix == "Error analyzing image: "
MostLikely == "Most likely: "
LowConfidence == "Note: Low confidence in all answers."

\* best_confidence, in percent, as the scorer may report it
Confidences == {50, 51}

\* A body that closes with the top answer from a confidence of 50 on.
ImageQAResultFromFifty(readable, conf) ==
    IF ~readable THEN [status |-> "OSError", closing |-> ""]
    ELSE [status |-> "ok",
          closing |-> IF conf >= 50 THEN MostLikely ELSE LowConfidence]

\* The body of ImageQATool._run: Image.open raises on a file that cannot be
\* opened as an image; the response closes with the top answer when its
\* confidence is above 50 and with the note otherwise.
ImageQAResult(readable, conf) ==
    IF ~readable THEN [status |-> "OSError", closing |-> ""]
    ELSE [status |-> "ok",
          closing |-> IF conf > 50 THEN MostLikely ELSE LowConfidence]

\* What ImageQATool._run returns.
ImageQAOutput(r) ==
    IF r.status # "ok"
    THEN IF Caught(r.status)
         THEN [kind |-> "error", text |-> <<ImageQAErrorPrefix, r.status>>]
         ELSE [kind |-> "raised", text |-> <<r.status>>]
    ELSE [kind |-> "answer", text |-> <<"Question: ", r.closing>>]

RunImageQATool(readable, conf) ==
    /\ last' = [op |-> "image_qa_tool", readable |-> readable, conf |-> conf,
                status |-> ImageQAResult(readable, conf).status,
                out |-> ImageQAOutput(ImageQAResult(readable, conf))]
    /\ UNCHANGED <<index, files, toolLoaded, loadedOk>>
    /\ UNCHANGED agentVars

----------------------------------------------------------------------------
(* The metadata rebuild script (scripts/rebuild_metadata.py) *)

\* rebuild_text_metadata: one record per restaurant of the dataset as it is
\* when the script runs (n restaurants), written to the metadata artifact alone.
RebuildTextMetadata(n) ==
    /\ files' = [files EXCEPT ![TextMetadataPath] =
                    MetadataFile([j \in 1..n |-> Record(j)])]
    /\ last' = [op |-> "rebuild_text", status |-> "ok"]
    /\ UNCHANGED <<index, toolLoaded, loadedOk>>
    /\ UNCHANGED agentVars

\* rebuild_image_metadata: one record per photo whose file exists when the
\* script runs (n of them), written to the metadata artifact alone.
RebuildImageMetadata(n) ==
    /\ files' = [files EXCEPT ![ImageMetadataPath] =
                    MetadataFile([j \in 1..n |-> Record(j)])]
    /\ last' = [op |-> "rebuild_image", status |-> "ok"]
    /\ UNCHANGED <<index, toolLoaded, loadedOk>>
    /\ UNCHANGED agentVars

\* The build script, one retriever, and the two tools that share it.
NextRetriever ==
    \/ \E w \in BOOLEAN : BuildTextIndex(Corpus(MaxEntries), w)
    \/ \E n \in 0..MaxEntries, w \in BOOLEAN : BuildImageIndex(Corpus(n), w)
    \/ LoadIndices
    \/ \E pt \in Points, k \in Ks : SearchText(pt, k)
    \/ \E img \in Images, k \in Ks : SearchImage(img, k)
    \/ \E pt \in Points, k \in Ks : RunTextTool(pt, k)
    \/ \E img \in Images, k \in Ks : RunImageTool(img, k)

SpecRetriever == Init /\ [][NextRetriever]_vars

\* The dataset when the metadata is rebuilt: as it was when the indices were
\* built, or emptied since.
DatasetSizes == {0, MaxEntries}

\* The queries the tools are given: the two extreme points, and an image that
\* cannot be opened.
QueryPoints == {0, MaxPt}
QueryImages == {i \in Images : i.pt \in QueryPoints}

\* The two scripts that write the artifacts and the three tools of the toolkit
\* on one retriever.
NextServing ==
    \/ \E w \in BOOLEAN : BuildTextIndex(Corpus(MaxEntries), w)
    \/ \E n \in 0..MaxEntries, w \in BOOLEAN : BuildImageIndex(Corpus(n), w)
    \/ \E n \in DatasetSizes : RebuildTextMetadata(n)
    \/ \E n \in DatasetSizes : RebuildImageMetadata(n)
    \/ \E pt \in QueryPoints, k \in Ks : RunTextTool(pt, k)
    \/ \E img \in QueryImages, k \in Ks : RunImageTool(img, k)
    \/ \E readable \in BOOLEAN, conf \in Confidences :
           RunImageQATool(readable, conf)

SpecServing == Init /\ [][NextServing]_vars

----------------------------------------------------------------------------
(* FoodFinderAgent: the graph START -> agent -> [tools -> agent] -> END *)

SystemPrompt == "You are a helpful restaurant recommendation assistant"

\* The messages of langchain_core: type, content (text, as a sequence of
\* pieces), the tool calls of an assistant message, the call a tool message
\* answers.
SystemMessage(content) ==
    [type |-> "system", content |-> <<content>>, tool_calls |-> <<>>,
     tool_call_id |-> 0]

HumanMessage(content) ==
    [type |-> "human", content |-> <<content>>, tool_calls |-> <<>>,
     tool_call_id |-> 0]

AIMessage(content, calls) ==
    [type |-> "ai", content |-> content, tool_calls |-> calls, tool_call_id |-> 0]

ToolMessage(content, id) ==
    [type |-> "tool", content |-> content, tool_calls |-> <<>>,
     tool_call_id |-> id]

\* A state whose update replaces the message list (a plain state key, no reducer).
AddMessagesOverwrite(left, right) == right

\* MessagesState: the update a node returns is appended to state["messages"]
\* (the add_messages reducer; every message of a session has an id of its own).
AddMessages(left, right) == left \o right

\* A _call_model that adds the system prompt on the first call only.
CallModelInputFirstCallOnly(msgs) ==
    IF Len(msgs) = 1 THEN <<SystemMessage(SystemPrompt)>> \o msgs ELSE msgs

\* _call_model: the list handed to the model; the state is left as it is.
CallModelInput(msgs) ==
    IF Len(msgs) = 1 \/ ~\E i \in 1..Len(msgs) : msgs[i].type = "system"
    THEN <<SystemMessage(SystemPrompt)>> \o msgs
    ELSE msgs

\* A routing that always ends the loop.
ShouldContinueAlwaysEnd(msgs) == "end"

\* _should_continue: a human message has no tool_calls attribute.
ShouldContinue(msgs) ==
    IF Len(msgs[Len(msgs)].tool_calls) > 0 THEN "tools" ELSE "end"

\* The tool calls the model may request: a text search, an image search with an
\* image that can be opened and with one that cannot, a question on an image.
Requests ==
    {[name |-> "rag_text_search", args |-> [pt |-> 0, k |-> 1]],
     [name |-> "rag_image_search",
      args |-> [img |-> [readable |-> TRUE, pt |-> 0], k |-> 1]],
     [name |-> "rag_image_search",
      args |-> [img |-> [readable |-> FALSE, pt |-> 0], k |-> 1]],
     [name |-> "image_qa", args |-> [readable |-> TRUE, conf |-> 51]]}

\* The responses of the model to the transcript msgs: a final answer, or up to
\* MaxCalls tool calls, each with an id of its own.  A response requests tools
\* only while the transcript has room for their observations and one more
\* response.
Responses(msgs) ==
    LET room == MaxMessages - Len(msgs) - 2
        most == IF room < MaxCalls THEN room ELSE MaxCalls
    IN  {AIMessage(<<"answer">>, <<>>)} \cup
        {AIMessage(<<>>, [i \in 1..Len(c) |->
                            [id |-> Len(msgs) + 1 + i, name |-> c[i].name,
                             args |-> c[i].args]]) :
            c \in UNION {[1..m -> Requests] : m \in 1..most}}

\* A call that loads nothing.
NoLoad == [called |-> FALSE, status |-> "ok", text |-> FALSE, image |-> FALSE]

\* ToolNode, one call: the tool named by the call is run with the call's
\* arguments on the shared retriever.
ExecuteCall(call, idx, fs, flags) ==
    IF call.name = "rag_text_search"
    THEN LET r == TextToolResult(idx, fs, flags["text"], call.args.pt, call.args.k)
         IN  [index |-> r.index, flags |-> [flags EXCEPT !["text"] = r.flag],
              load |-> r.load, out |-> r.out]
    ELSE IF call.name = "rag_image_search"
    THEN LET r == ImageToolResult(idx, fs, flags["image"], call.args.img,
                                  call.args.k)
         IN  [index |-> r.index, flags |-> [flags EXCEPT !["image"] = r.flag],
              load |-> r.load, out |-> r.out]
    ELSE [index |-> idx, flags |-> flags, load |-> NoLoad,
          out |-> ImageQAOutput(ImageQAResult(call.args.readable,
                                              call.args.conf))]

\* A ToolNode that returns as soon as one call has completed.
AllDoneSomeDone(a) == Len(a.order) >= 1

\* ToolNode waits for every call of the step.
AllDone(a) == Len(a.order) = Len(a.calls)

\* Observations in the order in which the calls completed.
ObservationsAsCompleted(a) ==
    [j \in 1..Len(a.order) |->
        ToolMessage(a.out[a.order[j]].text, a.calls[a.order[j]].id)]

\* One observation for the whole step: that of the first call.
ObservationsFirstOnly(a) == <<ToolMessage(a.out[1].text, a.calls[1].id)>>

\* A step in which one failed call fails every call: each observation is the
\* error payload of the first call that failed.
ObservationsFailTogether(a) ==
    LET failed == {i \in 1..Len(a.calls) : a.out[i].kind = "error"}
    IN  [i \in 1..Len(a.calls) |->
            ToolMessage(IF failed = {} THEN a.out[i].text
                        ELSE a.out[CHOOSE f \in failed :
                                       \A g \in failed : f <= g].text,
                        a.calls[i].id)]

\* ToolNode: one tool message per call, in the order of the calls, each with
\* the id of its call.
Observations(a) ==
    [i \in 1..Len(a.calls) |-> ToolMessage(a.out[i].text, a.calls[i].id)]

\* run(query) / stream(query): the initial state, and START -> agent.
Run ==
    /\ node = "idle"
    /\ messages' = <<HumanMessage("query")>>
    /\ node' = "agent"
    /\ UNCHANGED <<index, files, toolLoaded, loadedOk, last, sent, acting,
                   steps, result>>

\* graph.invoke / graph.stream are called without a config: the graph runs at
\* most the default number of supersteps (one per run of a node) and raises
\* GraphRecursionError when a node is due after that.
RecursionLimit == 25

\* The supersteps of the session so far.
SuperSteps == steps.reasoning + steps.acting

\* _call_model up to the invocation of the model.
CallModel ==
    /\ node = "agent"
    /\ SuperSteps < RecursionLimit
    /\ sent' = CallModelInput(messages)
    /\ node' = "model"
    /\ UNCHANGED <<index, files, toolLoaded, loadedOk, last, messages, acting,
                   steps, result>>

\* The model returns: the response is added to the state and the conditional
\* edge routes to the tools or to END.  alone is, for each call, what its tool
\* returns when it is the only call made (history, for comparison).
ModelReturns(response) ==
    /\ node = "model"
    /\ \E msgs \in {AddMessages(messages, <<response>>)} :
        /\ messages' = msgs
        /\ node' = ShouldContinue(msgs)
        /\ acting' =
              IF ShouldContinue(msgs) = "tools"
              THEN [calls |-> response.tool_calls,
                    out |-> [i \in 1..Len(response.tool_calls) |->
                                [kind |-> "pending", text |-> <<>>]],
                    alone |-> [i \in 1..Len(response.tool_calls) |->
                                  ExecuteCall(response.tool_calls[i], index,
                                              files, toolLoaded).out],
                    order |-> <<>>]
              ELSE acting
    /\ steps' = [steps EXCEPT !.reasoning = @ + 1]
    /\ UNCHANGED <<index, files, toolLoaded, loadedOk, last, sent, result>>

\* A loop that takes the error of the model for the end of the session.
ModelErrorOutcomeSwallowed(res) == [node |-> "end", result |-> res]

\* An exception raised by the model call is caught nowhere in _call_model, in
\* the graph or in run(): it leaves run() (and the generator of stream()).
ModelErrorOutcome(res) ==
    [node |-> "failed", result |-> [res EXCEPT !.raised = TRUE]]

\* The model call raises.
ModelFails ==
    /\ node = "model"
    /\ node' = ModelErrorOutcome(result).node
    /\ result' = ModelErrorOutcome(result).result
    /\ UNCHANGED <<index, files, toolLoaded, loadedOk, last, messages, sent,
                   acting, steps>>

\* ToolNode runs the calls of the step on a thread pool: call i runs to its end.
ExecuteTool(i) ==
    /\ node = "tools"
    /\ SuperSteps < RecursionLimit
    /\ i \in 1..Len(acting.calls)
    /\ \A j \in 1..Len(acting.order) : acting.order[j] # i
    /\ \E r \in {ExecuteCall(acting.calls[i], index, files, toolLoaded)} :
        /\ index' = r.index
        /\ toolLoaded' = r.flags
        /\ loadedOk' = IF r.load.called THEN LoadedAfter(loadedOk, r.load)
                       ELSE loadedOk
        /\ acting' = [acting EXCEPT !.out[i] = r.out,
                                    !.order = Append(@, i)]
    /\ UNCHANGED <<files, last, messages, node, sent, steps, result>>

\* ToolNode returns its tool messages; tools -> agent.
Observe ==
    /\ node = "tools"
    /\ AllDone(acting)
    /\ messages' = AddMessages(messages, Observations(acting))
    /\ node' = "agent"
    /\ steps' = [steps EXCEPT !.acting = @ + 1]
    /\ UNCHANGED <<index, files, toolLoaded, loadedOk, last, sent, acting, result>>

\* run() returns the content of the last message.
Return ==
    /\ node = "end"
    /\ result' = [returned |-> TRUE, raised |-> FALSE,
                  answer |-> messages[Len(messages)].content]
    /\ node' = "returned"
    /\ UNCHANGED <<index, files, toolLoaded, loadedOk, last, messages, sent,
                   acting, steps>>

\* The indices are built before the agent is run; then one session.
NextAgent ==
    \/ node = "idle" /\ BuildTextIndex(Corpus(MaxEntries), TRUE)
    \/ node = "idle" /\ BuildImageIndex(Corpus(MaxEntries), TRUE)
    \/ Run
    \/ Len(messages) < MaxMessages /\ CallModel
    \/ \E response \in Responses(messages) : ModelReturns(response)
    \/ ModelFails
    \/ \E i \in 1..MaxCalls : ExecuteTool(i)
    \/ Observe
    \/ Return

SpecAgent == Init /\ [][NextAgent]_vars

\* A node is due and the supersteps are used up: GraphRecursionError leaves
\* run().
RecursionError ==
    /\ node \in {"agent", "tools"}
    /\ SuperSteps >= RecursionLimit
    /\ node' = "failed"
    /\ result' = [result EXCEPT !.raised = TRUE]
    /\ UNCHANGED <<index, files, toolLoaded, loadedOk, last, messages, sent,
                   acting, steps>>

\* The responses of a model that asks for one text search, or answers.
LoopResponses(msgs) ==
    {AIMessage(<<"answer">>, <<>>),
     AIMessage(<<>>, <<[id |-> Len(msgs) + 2, name |-> "rag_text_search",
                        args |-> [pt |-> 0, k |-> 1]]>>)}

\* One session of any length in which every model call and every tool call
\* returns.
NextLoop ==
    \/ node = "idle" /\ BuildTextIndex(Corpus(MaxEntries), TRUE)
    \/ Run
    \/ CallModel
    \/ \E response \in LoopResponses(messages) : ModelReturns(response)
    \/ ExecuteTool(1)
    \/ Observe
    \/ Return
    \/ RecursionError

SpecLoop == Init /\ [][NextLoop]_vars

----------------------------------------------------------------------------
(* Two image searches of one Acting step, statement by statement *)

\* The responses of a model that first asks for two image searches of all the
\* entries, or answers.
ConcurrentResponses(msgs) ==
    {AIMessage(<<"answer">>, <<>>)} \cup
    IF Len(msgs) # 1 THEN {}
    ELSE {AIMessage(<<>>,
              [i \in 1..2 |->
                  [id |-> Len(msgs) + 1 + i, name |-> "rag_image_search",
                   args |-> [img |-> [readable |-> TRUE, pt |-> q[i]],
                             k |-> MaxEntries]]]) :
             q \in [1..2 -> QueryPoints]}

\* RAGImageTool._run on the thread of call i, up to the loop of search_image:
\* the load, if the tool's flag asks for it, the embedding, and
\* image_index.search.  The thread now holds results (references to the stored
\* records, here their positions) and distances.  A call that raises on the
\* way has run to its end.
StartSearch(i) ==
    /\ node = "tools"
    /\ SuperSteps < RecursionLimit
    /\ i \in 1..Len(acting.calls)
    /\ acting.out[i].kind = "pending"
    /\ acting.calls[i].name = "rag_image_search"
    /\ \E r \in {ImageToolResult(index, files, toolLoaded["image"],
                                 acting.calls[i].args.img,
                                 acting.calls[i].args.k)} :
       \E s \in {SearchResult(r.load.index["image_index"],
                              [width |-> ImageDim,
                               pt |-> acting.calls[i].args.img.pt],
                              acting.calls[i].args.k)} :
        /\ toolLoaded' = [toolLoaded EXCEPT !["image"] = r.flag]
        /\ loadedOk' = IF r.load.called THEN LoadedAfter(loadedOk, r.load)
                       ELSE loadedOk
        /\ IF r.status = "ok"
           THEN /\ index' = r.load.index
                /\ acting' = [acting EXCEPT
                                 !.out[i] = [kind |-> "running", text |-> <<>>,
                                             hits |-> s.hits,
                                             distances |-> s.distances,
                                             at |-> 1]]
           ELSE /\ index' = r.index
                /\ acting' = [acting EXCEPT !.out[i] = r.out,
                                            !.order = Append(@, i)]
    /\ UNCHANGED <<files, last, messages, node, sent, steps, result>>

\* One turn of the loop of search_image on the thread of call i: distance and
\* similarity are written into the record results[at].
WriteScore(i) ==
    /\ node = "tools"
    /\ i \in 1..Len(acting.calls)
    /\ acting.out[i].kind = "running"
    /\ acting.out[i].at <= Len(acting.out[i].hits)
    /\ \E o \in {acting.out[i]} :
        /\ index' = [index EXCEPT
                        !["image_index"].metadata[o.hits[o.at]] =
                            IF o.at <= Len(o.distances)
                            THEN Scored(@, o.distances[o.at]) ELSE @]
        /\ acting' = [acting EXCEPT !.out[i].at = @ + 1]
    /\ UNCHANGED <<files, toolLoaded, loadedOk, last, messages, node, sent,
                   steps, result>>

\* search_image returns and _run serializes the records as they are now.
ReturnResults(i) ==
    /\ node = "tools"
    /\ i \in 1..Len(acting.calls)
    /\ acting.out[i].kind = "running"
    /\ acting.out[i].at > Len(acting.out[i].hits)
    /\ acting' = [acting EXCEPT
                     !.out[i] = ToolOutput("ok",
                                           Records(index["image_index"],
                                                   acting.out[i].hits),
                                           NoImageMatches, ImageErrorPrefix),
                     !.order = Append(@, i)]
    /\ UNCHANGED <<index, files, toolLoaded, loadedOk, last, messages, node,
                   sent, steps, result>>

\* The indices are built, then one session whose image searches run
\* interleaved.
NextConcurrent ==
    \/ node = "idle" /\ BuildTextIndex(Corpus(MaxEntries), TRUE)
    \/ node = "idle" /\ BuildImageIndex(Corpus(MaxEntries), TRUE)
    \/ Run
    \/ CallModel
    \/ \E response \in ConcurrentResponses(messages) : ModelReturns(response)
    \/ \E i \in 1..2 : StartSearch(i)
    \/ \E i \in 1..2 : WriteScore(i)
    \/ \E i \in 1..2 : ReturnResults(i)
    \/ Observe
    \/ Return

SpecConcurrent == Init /\ [][NextConcurrent]_vars

----------------------------------------------------------------------------
(* Properties of FAISSIndex, checked under SpecIndex *)

NoDuplicates(s) == \A i, j \in 1..Len(s) : s[i] = s[j] => i = j

\* C1: a search that returns, returns at most k records, and exactly n records
\* when the index holds n < k entries.
C1_SearchReturnsAtMostKExactlyN ==
    (last.op = "search" /\ last.status = "ok") =>
        /\ Len(last.results) <= last.k
        /\ Ntotal(index[last.obj]) < last.k =>
               Len(last.results) = Ntotal(index[last.obj])

\* C2: searching a created index with zero entries, with a query of the index's
\* width and any k, raises no error and returns no record.
C2_EmptyIndexSearchReturnsEmpty ==
    (/\ last.op = "search"
     /\ index[last.obj].index.created
     /\ Ntotal(index[last.obj]) = 0
     /\ Len(index[last.obj].metadata) = 0
     /\ last.query.width = index[last.obj].index.d) =>
        last.status = "ok" /\ last.results = <<>>

\* C3: in every reachable state the number of stored vectors equals the number
\* of stored metadata records.
C3_CountsAgree ==
    \A x \in Objects : Ntotal(index[x]) = Len(index[x].metadata)

\* C4: add raises the validation error whenever the array is not rank-2, its
\* width is not the index dimension or the counts differ; an add that raises
\* leaves the stored vectors and the metadata list as they were; an add that
\* returns appends the rows and the records, the same number of each.
C4_AddValidatesAndAppends ==
    [][last'.op = "add" =>
        LET x == last'.obj
            b == last'.batch
            md == last'.metadata
        IN  /\ (b.ndim # 2 \/ b.width # index[x].dimension
                    \/ Len(b.rows) # Len(md)) => last'.status = "ValueError"
            /\ last'.status # "ok" =>
                   /\ index'[x].index.vecs = index[x].index.vecs
                   /\ index'[x].metadata = index[x].metadata
            /\ last'.status = "ok" =>
                   /\ index'[x].index.vecs = index[x].index.vecs \o b.rows
                   /\ index'[x].metadata = index[x].metadata \o md
                   /\ Ntotal(index'[x]) - Ntotal(index[x])
                          = Len(index'[x].metadata) - Len(index[x].metadata)
    ]_vars

C4_RejectedAddOnFilledIndex ==
    /\ last.op = "add"
    /\ last.status = "ValueError"
    /\ last.batch.ndim = 2
    /\ last.batch.width = index[last.obj].dimension
    /\ Len(last.batch.rows) # Len(last.metadata)
    /\ Ntotal(index[last.obj]) > 0

\* C5: in an index whose stored vectors are duplicate-free and as many as its
\* metadata records, search(e, k=1) for a stored vector e returns exactly the
\* one record stored at the position of e.
C5_NearestIsPairedRecord ==
    (/\ last.op = "search"
     /\ last.k = 1
     /\ last.query.width = index[last.obj].index.d
     /\ Ntotal(index[last.obj]) = Len(index[last.obj].metadata)
     /\ NoDuplicates(index[last.obj].index.vecs)) =>
        \A i \in 1..Ntotal(index[last.obj]) :
            index[last.obj].index.vecs[i] = last.query.pt =>
                /\ last.status = "ok"
                /\ last.results = <<index[last.obj].metadata[i]>>

C5_SecondOfTwoFound ==
    /\ last.op = "search"
    /\ last.k = 1
    /\ Ntotal(index[last.obj]) = 2
    /\ Len(index[last.obj].metadata) = 2
    /\ NoDuplicates(index[last.obj].index.vecs)
    /\ last.query.width = index[last.obj].index.d
    /\ last.query.pt = index[last.obj].index.vecs[2]
    /\ last.results = <<index[last.obj].metadata[2]>>

\* What search returns to its caller: status, distances and records.
Returned(obj, query, k) ==
    LET r == SearchResult(obj, query, k)
    IN  [status |-> r.status, distances |-> r.distances,
         results |-> Records(obj, r.hits)]

\* C6: from every reachable state, a save that completes followed by a load of
\* the two artifacts into a fresh index gives an index whose search returns the
\* same distances and the same records in the same order, for every q and k.
C6_SaveLoadRoundTrip ==
    \A x \in Objects, dim \in Widths :
        LET pa == IF x = "text_index" THEN TextIndexPath ELSE ImageIndexPath
            pb == IF x = "text_index" THEN TextMetadataPath ELSE ImageMetadataPath
            s == SaveResult(index[x], files, pa, pb, TRUE)
            l == LoadResult(NewFAISSIndex(dim), s.files, pa, pb)
        IN  s.status = "ok" =>
                /\ l.status = "ok"
                /\ \A query \in Queries(index[x].dimension), k \in Ks :
                       Returned(l.obj, query, k) = Returned(index[x], query, k)

C6_LoadedWhatWasSaved ==
    /\ last.op = "load"
    /\ last.status = "ok"
    /\ Ntotal(index[last.obj]) = 2
    /\ NoDuplicates(index[last.obj].index.vecs)
    /\ files[last.pa] = IndexFile(index[last.obj])
    /\ files[last.pb] = MetadataFile(index[last.obj].metadata)

\* C7: load raises the not-found error when the vector store artifact is
\* absent, and also when the metadata artifact is absent.
C7_LoadFailsWhenEitherAbsent ==
    (last.op = "load" /\ (~files[last.pa].exists \/ ~files[last.pb].exists)) =>
        last.status = "NotFoundError"

C7_MetadataAloneAbsent ==
    /\ last.op = "load"
    /\ files[last.pa].exists
    /\ ~files[last.pb].exists
    /\ last.status = "NotFoundError"

----------------------------------------------------------------------------
(* Properties of the retriever and the search tools, checked under SpecRetriever *)

\* The FAISSIndex object x holds exactly what the two artifacts hold.
HoldsArtifacts(x, pa, pb) ==
    /\ index[x].index = [created |-> TRUE, d |-> files[pa].d, vecs |-> files[pa].vecs]
    /\ index[x].metadata = files[pb].records

\* C8: load_indices raises the not-found error when the text index artifact is
\* absent, whatever the image artifacts; with both text artifacts present and
\* the image index artifact absent it returns normally and the text index
\* holds the text artifacts.
C8_TextRequiredImageOptional ==
    last.op = "load_indices" =>
        /\ ~files[TextIndexPath].exists => last.status = "NotFoundError"
        /\ (/\ files[TextIndexPath].exists
            /\ files[TextMetadataPath].exists
            /\ ~files[ImageIndexPath].exists) =>
               /\ last.status = "ok"
               /\ HoldsArtifacts("text_index", TextIndexPath, TextMetadataPath)

C8_LoadedTextWithoutImage ==
    /\ last.op = "load_indices"
    /\ last.status = "ok"
    /\ ~files[ImageIndexPath].exists
    /\ Ntotal(index["text_index"]) > 0
    /\ HoldsArtifacts("text_index", TextIndexPath, TextMetadataPath)

\* C9: on a retriever on which load_indices has returned normally while the
\* image index artifact is absent, every search_image raises, the image search
\* tool returns its error payload and not its "no matches" string, and every
\* search_text returns normally.
C9_ImageSearchFailsDistinctly ==
    (loadedOk.retriever /\ ~files[ImageIndexPath].exists) =>
        /\ last.op = "search_image" => last.status # "ok"
        /\ last.op = "image_tool" =>
               /\ last.out.kind = "error"
               /\ last.out.text # NoImageMatches
        /\ last.op = "search_text" => last.status = "ok"

C9_ImageToolErrorAfterTextOnlyLoad ==
    /\ loadedOk.retriever
    /\ ~files[ImageIndexPath].exists
    /\ last.op = "image_tool"
    /\ last.img.readable
    /\ last.searched
    /\ last.out.kind = "error"
    /\ last.out.text = <<ImageErrorPrefix, "AttributeError">>

\* C10: a search_text (search_image) called before the load of the text
\* (image) index has succeeded on the retriever never returns a result list,
\* and every search issued by the two tools comes after a load_indices that
\* returned normally.
C10_NoSearchBeforeLoad ==
    /\ (last.op = "search_text" /\ ~loadedOk.text) => last.status # "ok"
    /\ (last.op = "search_image" /\ ~loadedOk.image) => last.status # "ok"
    /\ (last.op \in {"text_tool", "image_tool"} /\ last.searched) =>
           loadedOk.retriever

----------------------------------------------------------------------------
(* Properties of the tool layer, checked under SpecServing *)

ToolOps == {"text_tool", "image_tool", "image_qa_tool"}

\* The tool call of this step found the indices loaded: the image
\* question-answering tool has no index; a search tool's own flag is set, so it
\* does not load.
LoadedBefore(l) ==
    \/ l.op = "image_qa_tool"
    \/ l.op \in {"text_tool", "image_tool"} /\ ~l.loadCalled

\* C11: once the indices are loaded, a tool call leaves the stored vectors and
\* every stored metadata record of both indices as they were: distance and
\* similarity are never written into the stored metadata.
C11_ToolsLeaveIndicesUnchanged ==
    [][(loadedOk.retriever /\ last'.op \in ToolOps /\ LoadedBefore(last')) =>
          \A x \in Objects :
              /\ index'[x].index = index[x].index
              /\ index'[x].metadata = index[x].metadata
    ]_vars

\* The prefix of the error payload of each tool.
ErrorPrefixOf(op) ==
    IF op = "text_tool" THEN TextErrorPrefix
    ELSE IF op = "image_tool" THEN ImageErrorPrefix
    ELSE ImageQAErrorPrefix

\* C12: a tool call never leaves _run as an exception; whenever the load, the
\* embedding, the search or the file access inside the call raised, the call
\* returns the tool's error payload, and it returns that payload only then.
C12_ToolErrorsContained ==
    last.op \in ToolOps =>
        /\ last.out.kind # "raised"
        /\ last.status # "ok" <=> last.out.kind = "error"
        /\ last.out.kind = "error" =>
               last.out.text = <<ErrorPrefixOf(last.op), last.status>>

C12_LoadErrorContained ==
    /\ last.op = "text_tool"
    /\ last.loadCalled
    /\ ~last.searched
    /\ last.status = "NotFoundError"
    /\ last.out.kind = "error"

\* What a reader of the tool's text alone takes the outcome to be.
ReadOutcome(text, none, prefix) ==
    IF text = <<none>> THEN "nothing"
    ELSE IF text[1] = prefix THEN "failed"
    ELSE IF text[1] = "[" THEN "found"
    ELSE "unknown"

\* What the outcome of the call was.
Outcome(l) ==
    IF l.status # "ok" THEN "failed"
    ELSE IF l.results = <<>> THEN "nothing"
    ELSE "found"

\* C13: a search tool whose search returned zero results returns its fixed "no
\* matches" string, and the text a search tool returns tells which of the
\* three outcomes (found, found nothing, failed) the call had.
C13_NoMatchesIsDistinct ==
    /\ last.op = "text_tool" =>
           /\ Outcome(last) = "nothing" => last.out.text = <<NoTextMatches>>
           /\ ReadOutcome(last.out.text, NoTextMatches, TextErrorPrefix)
                  = Outcome(last)
    /\ last.op = "image_tool" =>
           /\ Outcome(last) = "nothing" => last.out.text = <<NoImageMatches>>
           /\ ReadOutcome(last.out.text, NoImageMatches, ImageErrorPrefix)
                  = Outcome(last)

C13_TextToolFoundNothing ==
    /\ last.op = "text_tool"
    /\ last.searched
    /\ last.status = "ok"
    /\ last.results = <<>>
    /\ last.out.text = <<NoTextMatches>>

----------------------------------------------------------------------------
(* Properties of the agent loop, checked under SpecAgent *)

\* s is a prefix of t
IsPrefix(s, t) == Len(s) <= Len(t) /\ \A i \in 1..Len(s) : s[i] = t[i]

\* The session is in the Reasoning state: before or during the model call
Reasoning == node \in {"agent", "model"}

\* C14: a Reasoning step (one whose model call returned) whose output has a
\* tool call is followed by Acting, one whose output has none by Done; what run() returns is the content of that
\* output; nothing follows Done but the return of run(); when the first
\* Reasoning step requests no tool, the session has one Reasoning step and no
\* Acting step.
C14_Routing ==
    [][/\ (node = "model" /\ node' \notin {"model", "failed"}) =>
              LET output == messages'[Len(messages')]
              IN  /\ output.type = "ai"
                  /\ Len(output.tool_calls) >= 1 => node' = "tools"
                  /\ Len(output.tool_calls) = 0 => node' = "end"
       /\ node = "end" =>
              /\ node' = "returned"
              /\ messages' = messages
              /\ result'.returned
              /\ result'.answer = messages[Len(messages)].content
       /\ node # "returned"
       /\ (Len(messages') >= 2 /\ messages'[2].tool_calls = <<>>) =>
              /\ node' \in {"end", "returned"}
              /\ steps' = [reasoning |-> 1, acting |-> 0]
    ]_vars

C14_AnsweredAtOnce ==
    /\ node = "returned"
    /\ result.answer = <<"answer">>
    /\ steps = [reasoning |-> 1, acting |-> 0]
    /\ Len(messages) = 2

\* The calls of the step have each run once: order lists every position once.
EachCallRanOnce(a) ==
    /\ Len(a.order) = Len(a.calls)
    /\ \A i \in 1..Len(a.calls) :
           Cardinality({j \in 1..Len(a.order) : a.order[j] = i}) = 1

\* C15: when a Reasoning step has requested m >= 1 tool calls, then at the next
\* Reasoning call every call has run exactly once, and the transcript handed to
\* the model is the previous one, then the assistant message, then one
\* observation per call in request order, each with the id and the output of
\* its call: 1 + m messages more.
C15_TranscriptGrowsByOnePlusM ==
    [][(node = "agent" /\ node' = "model" /\ steps.reasoning >= 1) =>
          LET m == Len(acting.calls)
              n == Len(sent)
          IN  /\ m >= 1
              /\ EachCallRanOnce(acting)
              /\ Len(sent') = n + 1 + m
              /\ IsPrefix(sent, sent')
              /\ sent'[n + 1].type = "ai"
              /\ sent'[n + 1].tool_calls = acting.calls
              /\ \A i \in 1..m :
                     /\ sent'[n + 1 + i].type = "tool"
                     /\ sent'[n + 1 + i].tool_call_id = acting.calls[i].id
                     /\ sent'[n + 1 + i].content = acting.out[i].text
    ]_vars

C15_TwoCallsThenReasoning ==
    /\ node = "model"
    /\ steps = [reasoning |-> 1, acting |-> 1]
    /\ Len(acting.calls) = 2
    /\ Len(sent) = 5
    /\ sent[4].tool_call_id = acting.calls[1].id
    /\ sent[5].tool_call_id = acting.calls[2].id

\* The error payload of the tool a call names.
ErrorPrefixOfCall(call) ==
    IF call.name = "rag_text_search" THEN TextErrorPrefix
    ELSE IF call.name = "rag_image_search" THEN ImageErrorPrefix
    ELSE ImageQAErrorPrefix

\* C16: when one of the two tool calls of an Acting step fails inside its tool,
\* its observation is the tool's error payload, the observation of the other
\* call is what that call returns when it is made alone, and the session goes
\* on to the next Reasoning step.
C16_FailedCallIsContained ==
    [][(node = "tools" /\ node' # "tools" /\ Len(acting.calls) = 2) =>
          \A i \in 1..2 :
              acting.out[i].kind = "error" =>
                  LET j == 3 - i
                      n == Len(messages)
                  IN  /\ node' = "agent"
                      /\ Len(messages') = n + 2
                      /\ messages'[n + i].content[1]
                             = ErrorPrefixOfCall(acting.calls[i])
                      /\ messages'[n + i].tool_call_id = acting.calls[i].id
                      /\ messages'[n + j].content = acting.alone[j].text
                      /\ messages'[n + j].tool_call_id = acting.calls[j].id
    ]_vars

C16_OneFailedOneFound ==
    /\ node = "agent"
    /\ Len(acting.calls) = 2
    /\ acting.out[1].kind = "error"
    /\ acting.out[2].kind = "results"
    /\ messages[Len(messages) - 1].content = acting.out[1].text
    /\ messages[Len(messages)].content = acting.out[2].text

\* C17: the list handed to the model, at every Reasoning step of the session,
\* has exactly one system message, and it is the first of the list.
C17_OneLeadingSystemMessage ==
    (node = "model" \/ steps.reasoning >= 1) =>
        /\ Len(sent) >= 1
        /\ sent[1].type = "system"
        /\ Cardinality({i \in 1..Len(sent) : sent[i].type = "system"}) = 1

C17_SecondIteration ==
    /\ node = "model"
    /\ steps.reasoning = 1
    /\ Len(sent) >= 4
    /\ sent[1] = SystemMessage(SystemPrompt)

\* C18: every step of a session leaves the messages it found in the
\* Conversation State where they were, and only adds messages after them.
C18_AppendOnly ==
    [][IsPrefix(messages, messages')]_vars

C18_GrownByActing ==
    /\ node = "agent"
    /\ steps.acting = 2
    /\ Len(messages) >= 5

\* C19: whatever the order in which the tool calls of an Acting step complete,
\* when the step is over and until the next response of the model, every call
\* has completed and the last messages of the Conversation State are the
\* observations of the calls in the order of the requests.
C19_ObservationsInRequestOrder ==
    (Reasoning /\ steps.acting >= 1) =>
        LET m == Len(acting.calls)
            n == Len(messages) - m
        IN  /\ Len(acting.order) = m
            /\ n >= 2
            /\ messages[n].tool_calls = acting.calls
            /\ \A i \in 1..m :
                   /\ messages[n + i].type = "tool"
                   /\ messages[n + i].tool_call_id = acting.calls[i].id
                   /\ messages[n + i].content = acting.out[i].text

C19_CompletedInReverse ==
    /\ node = "model"
    /\ acting.order = <<2, 1>>
    /\ messages[Len(messages) - 1].tool_call_id = acting.calls[1].id
    /\ messages[Len(messages)].tool_call_id = acting.calls[2].id

C21_ModelFailureEndsSession ==
    [][/\ (node = "model" /\ messages' = messages) =>
              /\ node' = "failed"
              /\ result'.raised
       /\ node' = "failed" =>
              /\ ~result'.returned
              /\ result'.answer = <<>>
              /\ steps' = steps
       /\ node # "failed"
    ]_vars

C21_FailedAfterActing ==
    /\ node = "failed"
    /\ result.raised
    /\ steps = [reasoning |-> 1, acting |-> 1]

----------------------------------------------------------------------------
(* Properties of the length of a session, checked under SpecLoop *)

\* C22: the loop has no ceiling: when every model call and every tool call
\* returns, the session is Done exactly when the last Reasoning step has
\* requested no tool, and it stops in no other way, however many Reasoning
\* steps request tools.
C22_LoopHasNoCeiling ==
    /\ node \in {"end", "returned"} <=>
           /\ Len(messages) >= 2
           /\ messages[Len(messages)].type = "ai"
           /\ messages[Len(messages)].tool_calls = <<>>
    /\ node # "failed"

----------------------------------------------------------------------------
(* Properties of the persisted artifacts, checked under SpecServing *)

\* C23: the two artifacts of a modality are written as a unit: whatever runs
\* of the build and of the metadata rebuild have happened, the persisted
\* metadata list is as long as the persisted vector store and its entry i is
\* the record of the dataset entry whose embedding is vector i.
C23_ArtifactsAligned ==
    \A pair \in {<<TextIndexPath, TextMetadataPath>>,
                 <<ImageIndexPath, ImageMetadataPath>>} :
        (files[pair[1]].exists /\ files[pair[2]].exists) =>
            /\ Len(files[pair[2]].records) = Len(files[pair[1]].vecs)
            /\ \A i \in 1..Len(files[pair[2]].records) :
                   files[pair[2]].records[i] = Record(i)

----------------------------------------------------------------------------
(* Properties of the stored entries, checked under SpecIndex *)

----------------------------------------------------------------------------
(* Properties of the similarity, checked under SpecRetriever *)

\* The records an image search has returned with the distance of a stored
\* vector.
Found ==
    IF last.op = "search_image" /\ last.status = "ok"
    THEN {last.results[i] : i \in {j \in 1..Len(last.results) :
                                       last.results[j].distance # FltMax}}
    ELSE {}

\* C25: the similarity attached to a distance d >= 0 returned by an image
\* search is 1 / (1 + d); it is above 0 and at most 1, it is 1 only when d is
\* 0, and of two returned distances the smaller has the strictly larger
\* similarity.  (All similarities have the numerator Resolution: the larger
\* fraction is the one with the smaller denominator.)
C25_SimilarityIsDecreasing ==
    /\ \A r \in Found :
           /\ r.similarity = <<Resolution, Resolution + r.distance>>
           /\ 0 < r.similarity[1] /\ r.similarity[1] <= r.similarity[2]
           /\ r.similarity[1] = r.similarity[2] => r.distance = 0
    /\ \A r1, r2 \in Found :
           r1.distance < r2.distance => r1.similarity[2] < r2.similarity[2]

----------------------------------------------------------------------------
(* Properties of the image question-answering tool, checked under SpecServing *)

\* The closings among the pieces of an output text.
Closings(text) ==
    {i \in 1..Len(text) : text[i] \in {MostLikely, LowConfidence}}

\* C26: a successful output of the image question-answering tool ends with
\* exactly one closing: the low-confidence note when the confidence of the top
\* candidate is at most 50, the assertion of the top answer when it is above
\* 50; never both and never neither.
C26_ExactlyOneClosing ==
    (last.op = "image_qa_tool" /\ last.out.kind = "answer") =>
        /\ Closings(last.out.text) = {Len(last.out.text)}
        /\ last.conf <= 50 =>
               last.out.text[Len(last.out.text)] = LowConfidence
        /\ last.conf > 50 =>
               last.out.text[Len(last.out.text)] = MostLikely

\* The tool has answered with a top confidence of exactly 50.
C26_AnsweredAtFifty ==
    /\ last.op = "image_qa_tool"
    /\ last.out.kind = "answer"
    /\ last.conf = 50

----------------------------------------------------------------------------
(* Properties of the scored results, checked under SpecRetriever *)

\* C27: every record search_image returns carries the squared Euclidean
\* distance between the query and the vector stored with that record (the
\* vector at the record's position), and the similarity of that distance; the
\* records are in ascending order of distance.
C27_DistanceBelongsToRecord ==
    (last.op = "search_image" /\ last.status = "ok") =>
        LET vecs == index["image_index"].index.vecs
        IN  /\ \A i \in 1..Len(last.results) :
                   /\ last.results[i].id \in 1..Len(vecs)
                   /\ last.results[i].distance =
                          Dist(vecs[last.results[i].id], last.img.pt)
                   /\ last.results[i].similarity =
                          Similarity(last.results[i].distance)
            /\ \A i, j \in 1..Len(last.results) :
                   i < j => last.results[i].distance <= last.results[j].distance

----------------------------------------------------------------------------
(* Properties of a failed load, checked under SpecIndex *)

\* C28: a load that fails, an artifact being absent, leaves the FAISSIndex
\* unchanged: after it the object holds the vector store and the metadata list
\* it held before the call.
C28_FailedLoadChangesNothing ==
    [][(last'.op = "load" /\ last'.status # "ok") =>
           index'[last'.obj] = index[last'.obj]
    ]_vars

----------------------------------------------------------------------------
(* Properties of the loading by the tools, checked under SpecServing *)

\* C29: the indices are loaded once: over the calls of the text and image
\* search tools that share the retriever, load_indices() returns normally at
\* most one time; a tool call made after a successful load does not load again.
C29_IndicesLoadedOnce ==
    [][(/\ last'.op \in {"text_tool", "image_tool"}
        /\ last'.loadCalled
        /\ last'.searched) => ~loadedOk.retriever
    ]_vars

----------------------------------------------------------------------------
(* Properties of concurrent image searches, checked under SpecConcurrent *)

\* The records of an image search, each with the distance of the search's own
\* query to the record's vector and the similarity of that distance.
OwnResults(call) ==
    LET r == SearchResult(index["image_index"],
                          [width |-> ImageDim, pt |-> call.args.img.pt],
                          call.args.k)
    IN  [n \in 1..Len(r.hits) |->
            Scored(index["image_index"].metadata[r.hits[n]], r.distances[n])]

\* C30: when two image searches of one Acting step run concurrently on the
\* retriever, the records each call returns carry the distance and the
\* similarity computed for that call's own query, whatever the interleaving.
C30_EachCallReturnsItsOwnScores ==
    \A i \in 1..Len(acting.calls) :
        (acting.calls[i].name = "rag_image_search"
         /\ acting.out[i].kind = "results") =>
            acting.out[i].text = JsonDumps(OwnResults(acting.calls[i]))

====
